---- MODULE Spec2Model ----
(***************************************************************************)
(* Model of Upload.py: authorization() (credential lifecycle) and upload() *)
(* (folder lookup, permission reconciliation, file upload) against a       *)
(* remote drive holding folders and their permission lists.                *)
(***************************************************************************)
EXTENDS Integers, Sequences, FiniteSets, TLC

\* ------------------------------------------------------------------ bounds
MaxFolders == 2       \* folders on the remote drive before the run
MaxPerms == 2         \* non-owner permissions on the remote drive before the run
PageSize == 1         \* entries per page of the remote folder listing
MaxClock == 3         \* the clock runs from 1 to MaxClock
MaxRuns == 2          \* consecutive runs of authorization()
TokenLifetime == 2    \* clock ticks before an access token expires

None == "None"
FolderNames == {"X", "Y"}
FileNames == {"song.wav"}
Emails == {"a@x.com", "b@x.com"}
Roles == {"reader", "writer"}
OwnerPermission == [emailAddress |-> "owner@x.com", role |-> "owner"]

VARIABLES
    \* remote drive and clock
    folders,            \* listing order: [id, name, permissions]
    folders0,           \* the remote drive when upload() was called
    now,
    \* upload(folder_name, file_name, user_email, access)
    folder_name, file_name, user_email, access,
    pc, folder_identifier, shared_users, response, idx,
    folderCalls,        \* files().create calls that create a folder
    permCalls,          \* permissions().create calls
    fileCalls,          \* files().create calls that upload a file
    \* authorization()
    disk,               \* token.pickle: <<>> when absent, else <<credential>>
    creds, apc, service, runs,
    issued,             \* access tokens the identity provider has issued
    loaded, checkedAt,  \* what line 16 read, and the clock at line 19
    refreshCalls, flowCalls, refreshFailed

uvars == <<folders, folders0, folder_name, file_name, user_email, access,
           pc, folder_identifier, shared_users, response, idx,
           folderCalls, permCalls, fileCalls>>
avars == <<disk, creds, apc, service, runs, issued, loaded, checkedAt,
           refreshCalls, flowCalls, refreshFailed>>
vars == <<uvars, avars, now>>

\* ---------------------------------------------------------- remote drive
Min(a, b) == IF a < b THEN a ELSE b

RECURSIVE SelectFirst(_, _, _)
\* index of the first entry of s at or after k whose name is n, 0 if none
SelectFirst(s, n, k) ==
    IF k > Len(s) THEN 0
    ELSE IF s[k].name = n THEN k
    ELSE SelectFirst(s, n, k + 1)

\* files().list(pageToken=None): the first page and whether more pages follow
ListFiles(fs) ==
    [files |-> SubSeq(fs, 1, Min(PageSize, Len(fs))),
     nextPageToken |-> Len(fs) > PageSize]

FreshIdMissing(fs) == None
\* folder.get('id'): the id the remote assigned to the created folder
FreshId(fs) == "id" \o ToString(Len(fs) + 1)

\* [i for i in perm['permissions'] if not (i['role'] == 'owner')]
NonOwner(perms) == SelectSeq(perms, LAMBDA p : ~(p.role = "owner"))

ShareRequestedAlways(email, role) == TRUE
\* `if user_email and access`
ShareRequested(email, role) == email # None /\ role # None

\* folder_name + " " + suffix[:-7]
ForkName(name, t) == name \o " " \o ToString(t)

HasGrantee(perms, email) == \E k \in 1..Len(perms) : perms[k].emailAddress = email

\* what the remote may hold after permissions().create: a request without
\* grantee or role adds nothing; a grantee that already has a permission
\* either gets a second one or has the existing one replaced
PermissionOutcomes(perms, email, role) ==
    LET new == [emailAddress |-> email, role |-> role] IN
    IF ~ShareRequested(email, role) THEN {perms}
    ELSE IF HasGrantee(perms, email)
         THEN {Append(perms, new),
               [k \in 1..Len(perms) |->
                   IF perms[k].emailAddress = email THEN new ELSE perms[k]]}
         ELSE {Append(perms, new)}

HasId(fs, id) == \E k \in 1..Len(fs) : fs[k].id = id
FolderById(fs, id) == CHOOSE k \in 1..Len(fs) : fs[k].id = id

\* ------------------------------------------------------------ initial drive
NonOwnerLists ==
    UNION {{s \in [1..k -> [emailAddress : Emails, role : Roles]] :
               \A x, y \in 1..k : x # y => s[x].emailAddress # s[y].emailAddress}
           : k \in 0..MaxPerms}

RECURSIVE Total(_, _)
Total(ps, k) == IF k = 0 THEN 0 ELSE Len(ps[k]) + Total(ps, k - 1)

Drives ==
    UNION {{[k \in 1..n |-> [id |-> "id" \o ToString(k), name |-> names[k],
                             permissions |-> <<OwnerPermission>> \o ps[k]]]
               : names \in [1..n -> FolderNames],
                 ps \in {q \in [1..n -> NonOwnerLists] : Total(q, n) <= MaxPerms}}
           : n \in 0..MaxFolders}

AuthIdle ==
    /\ disk = <<>> /\ creds = <<>> /\ apc = "idle" /\ service = <<>>
    /\ loaded = <<>> /\ checkedAt = 0 /\ runs = 0 /\ issued = 0
    /\ refreshCalls = 0 /\ flowCalls = 0 /\ refreshFailed = FALSE

InitUpload ==
    /\ folders \in Drives
    /\ folders0 = folders
    /\ now \in 1..MaxClock
    /\ folder_name \in FolderNames
    /\ file_name \in FileNames
    /\ user_email \in Emails \cup {None}
    /\ access \in Roles \cup {None}
    /\ pc = "find"
    /\ folder_identifier = None
    /\ shared_users = <<>>
    /\ response = <<>>
    /\ idx = 0
    /\ folderCalls = <<>> /\ permCalls = <<>> /\ fileCalls = <<>>
    /\ AuthIdle

\* ------------------------------------------------------------------ upload
\* lines 38-51: one listing call, first match by name, its permission list
FindFolder ==
    /\ pc = "find"
    /\ LET files == ListFiles(folders).files
           k == SelectFirst(files, folder_name, 1) IN
        /\ response' = files
        /\ folder_identifier' = IF k = 0 THEN None ELSE files[k].id
        /\ shared_users' = IF k = 0 THEN <<>> ELSE NonOwner(files[k].permissions)
    /\ pc' = "branch"
    /\ UNCHANGED <<folders, folders0, folder_name, file_name, user_email, access,
                   idx, folderCalls, permCalls, fileCalls, avars, now>>

\* the remote's answer to files().create of a folder
AddFolder(name) ==
    /\ folders' = Append(folders, [id |-> FreshId(folders), name |-> name,
                                   permissions |-> <<OwnerPermission>>])
    /\ folderCalls' = Append(folderCalls, [name |-> name, id |-> FreshId(folders)])
    /\ folder_identifier' = FreshId(folders)

\* lines 54-63: no folder found, create it
CreateFolder ==
    /\ pc = "branch"
    /\ folder_identifier = None
    /\ AddFolder(folder_name)
    /\ pc' = IF ShareRequested(user_email, access) THEN "perm" ELSE "upload"
    /\ idx' = Len(shared_users) + 1
    /\ UNCHANGED <<folders0, folder_name, file_name, user_email, access,
                   shared_users, response, permCalls, fileCalls, avars, now>>

\* lines 70-82: folder found and shared with nobody
FoundUnshared ==
    /\ pc = "branch"
    /\ folder_identifier # None
    /\ shared_users = <<>>
    /\ pc' = IF ShareRequested(user_email, access) THEN "perm" ELSE "upload"
    /\ idx' = Len(shared_users) + 1
    /\ UNCHANGED <<folders, folders0, folder_name, file_name, user_email, access,
                   folder_identifier, shared_users, response,
                   folderCalls, permCalls, fileCalls, avars, now>>

\* lines 83-85: folder found and shared with someone, enter the loop
FoundShared ==
    /\ pc = "branch"
    /\ folder_identifier # None
    /\ shared_users # <<>>
    /\ pc' = "loop"
    /\ idx' = 1
    /\ UNCHANGED <<folders, folders0, folder_name, file_name, user_email, access,
                   folder_identifier, shared_users, response,
                   folderCalls, permCalls, fileCalls, avars, now>>

\* line 87
SameShare(user) == user.emailAddress = user_email /\ user.role = access
\* line 91
OtherRole(user) == user.emailAddress = user_email /\ user.role # access

\* lines 87-88: same email and role, pass
LoopSame ==
    /\ pc = "loop"
    /\ idx <= Len(shared_users)
    /\ SameShare(shared_users[idx])
    /\ idx' = idx + 1
    /\ UNCHANGED <<folders, folders0, folder_name, file_name, user_email, access,
                   pc, folder_identifier, shared_users, response,
                   folderCalls, permCalls, fileCalls, avars, now>>

\* lines 91-98: same email, other role: create the timestamp folder
LoopFork ==
    /\ pc = "loop"
    /\ idx <= Len(shared_users)
    /\ ~SameShare(shared_users[idx])
    /\ OtherRole(shared_users[idx])
    /\ AddFolder(ForkName(folder_name, now))
    /\ pc' = "perm"
    /\ idx' = idx + 1
    /\ UNCHANGED <<folders0, folder_name, file_name, user_email, access,
                   shared_users, response, permCalls, fileCalls, avars, now>>

\* lines 105-109: any other entry
LoopOther ==
    /\ pc = "loop"
    /\ idx <= Len(shared_users)
    /\ ~SameShare(shared_users[idx])
    /\ ~OtherRole(shared_users[idx])
    /\ pc' = "perm"
    /\ idx' = idx + 1
    /\ UNCHANGED <<folders, folders0, folder_name, file_name, user_email, access,
                   folder_identifier, shared_users, response,
                   folderCalls, permCalls, fileCalls, avars, now>>

\* line 85: the loop is exhausted
LoopEnd ==
    /\ pc = "loop"
    /\ idx > Len(shared_users)
    /\ pc' = "upload"
    /\ UNCHANGED <<folders, folders0, folder_name, file_name, user_email, access,
                   folder_identifier, shared_users, response, idx,
                   folderCalls, permCalls, fileCalls, avars, now>>

\* lines 68, 79, 103, 110: permissions().create on folder_identifier; the
\* remote rejects a fileId it does not hold
CreatePermission ==
    /\ pc = "perm"
    /\ permCalls' = Append(permCalls, [fileId |-> folder_identifier,
                                       emailAddress |-> user_email, role |-> access])
    /\ IF HasId(folders, folder_identifier)
       THEN /\ LET k == FolderById(folders, folder_identifier) IN
                 \E ps \in PermissionOutcomes(folders[k].permissions, user_email, access) :
                     folders' = [folders EXCEPT ![k].permissions = ps]
            /\ pc' = IF idx <= Len(shared_users) THEN "loop" ELSE "upload"
       ELSE /\ folders' = folders
            /\ pc' = "error"
    /\ UNCHANGED <<folders0, folder_name, file_name, user_email, access,
                   folder_identifier, shared_users, response, idx,
                   folderCalls, fileCalls, avars, now>>

\* lines 113-135: the upload call; the remote rejects a parent it does not hold
UploadFile ==
    /\ pc = "upload"
    /\ fileCalls' = Append(fileCalls, [name |-> file_name, parents |-> folder_identifier])
    /\ pc' = IF HasId(folders, folder_identifier) THEN "done" ELSE "error"
    /\ UNCHANGED <<folders, folders0, folder_name, file_name, user_email, access,
                   folder_identifier, shared_users, response, idx,
                   folderCalls, permCalls, avars, now>>

\* a remote call about to be issued
AboutToCall ==
    \/ pc \in {"find", "perm", "upload"}
    \/ pc = "branch" /\ folder_identifier = None
    \/ pc = "loop" /\ idx <= Len(shared_users)
          /\ ~SameShare(shared_users[idx]) /\ OtherRole(shared_users[idx])

\* execute() raises; upload() catches nothing
RemoteError ==
    /\ AboutToCall
    /\ pc' = "error"
    /\ UNCHANGED <<folders, folders0, folder_name, file_name, user_email, access,
                   folder_identifier, shared_users, response, idx,
                   folderCalls, permCalls, fileCalls, avars, now>>

NextUpload ==
    \/ FindFolder
    \/ CreateFolder
    \/ FoundUnshared
    \/ FoundShared
    \/ LoopSame
    \/ LoopFork
    \/ LoopOther
    \/ LoopEnd
    \/ CreatePermission
    \/ UploadFile
    \/ RemoteError

SpecUpload == InitUpload /\ [][NextUpload]_vars

\* ------------------------------------------------------ properties: upload
\* index in the listing response (and on the drive as it was) of the folder
\* the lookup settles on, 0 if none
Found == SelectFirst(response, folder_name, 1)
Requested == [emailAddress |-> user_email, role |-> access]
\* a share is requested: both user_email and access are given
ShareGiven == user_email # None /\ access # None
InSeq(x, s) == \E k \in 1..Len(s) : s[k] = x

\* C1: every upload call names a parent that is not None and is the id of a
\* folder the remote holds at that moment, named folder_name or
\* "<folder_name> <timestamp>".
C1_ParentResolved ==
    \A c \in 1..Len(fileCalls) :
        /\ fileCalls[c].parents # None
        /\ \E k \in 1..Len(folders) :
              /\ folders[k].id = fileCalls[c].parents
              /\ folders[k].name \in {folder_name, ForkName(folder_name, now)}
C1_Witness ==
    /\ pc = "done" /\ Len(fileCalls) = 1
    /\ Len(folderCalls) = 1 /\ folderCalls[1].name = ForkName(folder_name, now)
    /\ fileCalls[1].parents = folderCalls[1].id

\* C2: when the listing response holds no folder named folder_name, the run
\* creates exactly one folder, named folder_name, and exactly one permission
\* on it if a share is requested, none otherwise.
C2_CreateWhenAbsent ==
    (pc # "find" /\ Found = 0) =>
        /\ Len(folderCalls) <= 1 /\ Len(permCalls) <= 1
        /\ \A c \in 1..Len(folderCalls) : folderCalls[c].name = folder_name
        /\ ~ShareGiven => permCalls = <<>>
        /\ pc \in {"upload", "done"} =>
              /\ Len(folderCalls) = 1
              /\ ShareGiven =>
                    permCalls = <<[fileId |-> folderCalls[1].id,
                                   emailAddress |-> user_email, role |-> access]>>
C2_Witness ==
    /\ pc = "done" /\ Found = 0 /\ ShareGiven
    /\ Len(folderCalls) = 1 /\ Len(permCalls) = 1

\* C3: when the found folder has a non-owner permission for the requested
\* email with another role, the run creates "<folder_name> <timestamp>",
\* grants the requested share there, creates no permission on the original
\* folder and leaves the original folder's permissions as they were.
C3_ForkLeavesOriginal ==
    (/\ pc = "done" /\ Found # 0 /\ ShareGiven
     /\ \E u \in 1..Len(shared_users) : OtherRole(shared_users[u])) =>
        /\ \E c \in 1..Len(folderCalls) :
              /\ folderCalls[c].name = ForkName(folder_name, now)
              /\ InSeq([fileId |-> folderCalls[c].id, emailAddress |-> user_email,
                        role |-> access], permCalls)
        /\ \A p \in 1..Len(permCalls) : permCalls[p].fileId # folders0[Found].id
        /\ folders[Found].permissions = folders0[Found].permissions

\* C4: every permission that existed before the run still exists with the
\* same email and role, and when the found folder has no permission for the
\* requested email the requested permission is added on it and no folder is
\* created.
C4_AddOnly ==
    /\ \A k \in 1..Len(folders0) : \A j \in 1..Len(folders0[k].permissions) :
          InSeq(folders0[k].permissions[j], folders[k].permissions)
    /\ (/\ pc = "done" /\ Found # 0 /\ ShareGiven
        /\ ~HasGrantee(shared_users, user_email)) =>
          /\ folderCalls = <<>>
          /\ InSeq(Requested, folders[Found].permissions)

\* C5: in a run with a requested share, no permission-creation call is
\* issued if the found folder already holds exactly the requested share, and
\* exactly one otherwise.
C5_MinimalCalls ==
    (pc = "done" /\ ShareGiven) =>
        IF Found # 0 /\ InSeq(Requested, shared_users)
        THEN Len(permCalls) = 0
        ELSE Len(permCalls) = 1

\* C9: a folder named folder_name on any page of the listing is found, the
\* first one in listing order is used, and no folder named folder_name is
\* created.
C9_FollowsPages ==
    (SelectFirst(folders0, folder_name, 1) # 0) =>
        /\ pc = "branch" =>
              folder_identifier = folders0[SelectFirst(folders0, folder_name, 1)].id
        /\ \A c \in 1..Len(folderCalls) : folderCalls[c].name # folder_name

\* C10: with user_email and access both None no permission-creation call is
\* issued.
C10_NoShareNoCall ==
    (user_email = None /\ access = None) => permCalls = <<>>

\* ----------------------------------------------------------- authorization
\* creds.expired
Expired(c) == now >= c.expiry
\* creds.valid, for a credential that carries an access token
Valid(c) == ~Expired(c)

NeedsRefreshNever(c) == FALSE
\* line 20: `creds and creds.expired and creds.refresh_token`
NeedsRefresh(c) == IF c = <<>> THEN FALSE ELSE Expired(c[1]) /\ c[1].refresh_token

\* line 19: `not creds or not creds.valid`
NotUsable(c) == IF c = <<>> THEN TRUE ELSE ~Valid(c[1])

\* the credential the identity provider hands out at the current time
Fresh(r) == [token |-> issued + 1, expiry |-> now + TokenLifetime, refresh_token |-> r]

UploadIdle ==
    /\ folders = <<>> /\ folders0 = <<>>
    /\ folder_name = None /\ file_name = None /\ user_email = None /\ access = None
    /\ pc = "idle" /\ folder_identifier = None /\ shared_users = <<>>
    /\ response = <<>> /\ idx = 0
    /\ folderCalls = <<>> /\ permCalls = <<>> /\ fileCalls = <<>>

InitAuth ==
    /\ now = 1
    /\ issued = 1
    /\ disk \in {<<>>} \cup {<<[token |-> 1, expiry |-> e, refresh_token |-> r]>> :
                               e \in 1..(MaxClock + 1), r \in BOOLEAN}
    /\ creds = <<>> /\ service = <<>> /\ loaded = <<>> /\ checkedAt = 0
    /\ apc = "load"
    /\ runs = 1
    /\ refreshCalls = 0 /\ flowCalls = 0 /\ refreshFailed = FALSE
    /\ UploadIdle

\* lines 11-16: read token.pickle if it exists
LoadToken ==
    /\ apc = "load"
    /\ creds' = disk
    /\ loaded' = disk
    /\ apc' = "check"
    /\ UNCHANGED <<disk, service, runs, issued, checkedAt,
                   refreshCalls, flowCalls, refreshFailed, uvars, now>>

\* line 19 false: the cached credential is used as it is
UseCached ==
    /\ apc = "check"
    /\ ~NotUsable(creds)
    /\ checkedAt' = now
    /\ apc' = "build"
    /\ UNCHANGED <<disk, creds, service, runs, issued, loaded,
                   refreshCalls, flowCalls, refreshFailed, uvars, now>>

\* lines 20-21: creds.refresh(Request()) succeeds and updates creds in memory
Refresh ==
    /\ apc = "check"
    /\ NotUsable(creds)
    /\ NeedsRefresh(creds)
    /\ checkedAt' = now
    /\ refreshCalls' = refreshCalls + 1
    /\ creds' = <<Fresh(TRUE)>>
    /\ issued' = issued + 1
    /\ apc' = "build"
    /\ UNCHANGED <<disk, service, runs, loaded, flowCalls, refreshFailed, uvars, now>>

\* line 21: creds.refresh(Request()) raises; nothing catches it
RefreshFails ==
    /\ apc = "check"
    /\ NotUsable(creds)
    /\ NeedsRefresh(creds)
    /\ checkedAt' = now
    /\ refreshCalls' = refreshCalls + 1
    /\ refreshFailed' = TRUE
    /\ apc' = "error"
    /\ UNCHANGED <<disk, creds, service, runs, issued, loaded, flowCalls, uvars, now>>

\* lines 22-26: the interactive flow succeeds; its credential is pickled
RunFlow ==
    /\ apc = "check"
    /\ NotUsable(creds)
    /\ ~NeedsRefresh(creds)
    /\ checkedAt' = now
    /\ flowCalls' = flowCalls + 1
    /\ \E r \in BOOLEAN :
          /\ creds' = <<Fresh(r)>>
          /\ disk' = <<Fresh(r)>>
    /\ issued' = issued + 1
    /\ apc' = "build"
    /\ UNCHANGED <<service, runs, loaded, refreshCalls, refreshFailed, uvars, now>>

\* line 24: run_local_server raises; nothing catches it
FlowFails ==
    /\ apc = "check"
    /\ NotUsable(creds)
    /\ ~NeedsRefresh(creds)
    /\ checkedAt' = now
    /\ flowCalls' = flowCalls + 1
    /\ apc' = "error"
    /\ UNCHANGED <<disk, creds, service, runs, issued, loaded,
                   refreshCalls, refreshFailed, uvars, now>>

\* lines 28-29: build(..., credentials=creds) and return the handle
Build ==
    /\ apc = "build"
    /\ service' = creds
    /\ apc' = "done"
    /\ UNCHANGED <<disk, creds, runs, issued, loaded, checkedAt,
                   refreshCalls, flowCalls, refreshFailed, uvars, now>>

\* line 145: the script is run again
StartRun ==
    /\ apc \in {"done", "error"}
    /\ runs < MaxRuns
    /\ runs' = runs + 1
    /\ creds' = <<>> /\ service' = <<>> /\ loaded' = <<>> /\ checkedAt' = 0
    /\ refreshCalls' = 0 /\ flowCalls' = 0 /\ refreshFailed' = FALSE
    /\ apc' = "load"
    /\ UNCHANGED <<disk, issued, uvars, now>>

\* time passes
Tick ==
    /\ now < MaxClock
    /\ now' = now + 1
    /\ UNCHANGED <<uvars, avars>>

NextAuth ==
    \/ LoadToken
    \/ UseCached
    \/ Refresh
    \/ RefreshFails
    \/ RunFlow
    \/ FlowFails
    \/ Build
    \/ StartRun
    \/ Tick

SpecAuth == InitAuth /\ [][NextAuth]_vars

\* ----------------------------------------------- properties: authorization
\* C6: a cached credential that is expired and has a refresh token is
\* refreshed exactly once and the interactive flow is not run; a cached
\* credential that is valid causes neither a refresh nor the flow.
C6_RefreshOnceNoFlow ==
    (apc \in {"build", "done"} /\ loaded # <<>>) =>
        /\ (checkedAt >= loaded[1].expiry /\ loaded[1].refresh_token) =>
              (refreshCalls = 1 /\ flowCalls = 0)
        /\ checkedAt < loaded[1].expiry => (refreshCalls = 0 /\ flowCalls = 0)
C6_Witness ==
    /\ apc = "done" /\ loaded # <<>> /\ refreshCalls = 1 /\ flowCalls = 0
    /\ checkedAt >= loaded[1].expiry /\ loaded[1].refresh_token

\* C7: whenever authorization has returned a handle, token.pickle holds the
\* credential the handle is bound to.
C7_DiskMatchesHandle ==
    apc = "done" => disk = service

\* C8: a failed refresh does not end authorization with an error; the
\* interactive flow runs, its credential is persisted, and the handle is
\* bound to it.
C8_RefreshFailureFallsBack ==
    refreshFailed =>
        /\ apc # "error"
        /\ apc = "done" => (flowCalls = 1 /\ disk = service)

====
